---- MODULE Spec2Model ----
(***************************************************************************)
(* Model of the license verification backend (src/app/main.py).           *)
(*                                                                         *)
(* Each request to /verify/<key>/<hid> runs verify_key on its own database *)
(* connection (one PostgreSQL transaction, READ COMMITTED: a statement     *)
(* sees the rows committed when it starts).  Requests run concurrently;    *)
(* one step of the model is one SQL statement, the call of                 *)
(* request_sendowl (which touches no shared state), or the commit.         *)
(***************************************************************************)
EXTENDS Integers, Sequences, FiniteSets, TLC

\* ------------------------------------------------------------------ bounds
MaxRequests == 4     \* requests started in one behaviour
MaxRecords == 2      \* license records in one upstream response

Procs == {"p1", "p2"}   \* request handlers that can run at the same time
Keys == {"k1", "k2"}
Hids == {"h1", "h2"}

\* ------------------------------------------------------- program constants
TRY_COUNT == 10

ok == 200
not_found == 404
timeout == 408
server_error == 500

\* --------------------------------------------------------------- the state
VARIABLES
    Licenses,         \* committed table: key -> sequence of its rows
    pc,               \* position of each handler in verify_key
    key, hid,         \* arguments of the request being handled
    session,          \* the handler's connection: "none", "open", "closed"
    pending,          \* the uncommitted write of the handler's transaction
    stored,           \* result of license_is_stored (line 31)
    stored_hid,       \* result of get_stored_hid (line 32)
    sendowl_calls,    \* history: calls of request_sendowl made by the request
    exhausted,        \* history: every attempt of the request's call timed out
    code_to_return,   \* result of request_sendowl (0: not returned)
    request_count,    \* value read by the SELECT of update_*_request_count
    outcome,          \* what the request ended with
    exc,              \* the unhandled exception, if the handler raised
    started,          \* number of requests started so far
    granted,          \* history: the (key, hid) pairs that were answered 'OK'
    completed,        \* history: per key, requests completed since its binding was created
    loop_run,         \* request_sendowl alone: the upstream's answers to its attempts
    loop_i,           \* request_sendowl alone: iterations of the loop begun
    loop_request,     \* request_sendowl alone: the local `request`
    loop_ret          \* request_sendowl alone: how the call ended (Running until then)

loopvars == <<loop_run, loop_i, loop_request, loop_ret>>

mainvars == <<Licenses, pc, key, hid, session, pending, stored, stored_hid,
              sendowl_calls, exhausted, code_to_return, request_count, outcome, exc,
              started, granted, completed>>

vars == <<mainvars, loopvars>>

NoWrite == [op |-> "none", val |-> 0]

\* A record of the upstream response: results[i]['license'].  A field is absent,
\* or holds a falsy or a truthy JSON value.
LicenseRecords == [order_refunded : {"absent", "false", "true"},
                   order_id : {"absent", "null", "id"}]

RECURSIVE SeqsUpTo(_, _)
SeqsUpTo(S, n) ==
    IF n = 0 THEN {<<>>}
    ELSE LET shorter == SeqsUpTo(S, n - 1)
         IN shorter \cup {Append(s, x) : s \in {t \in shorter : Len(t) = n - 1}, x \in S}

Responses == SeqsUpTo(LicenseRecords, MaxRecords)

\* ------------------------------------------------------------- pure parts
Returned(c) == [exc |-> "none", code |-> c]
Raised(e) == [exc |-> e, code |-> 0]

handle_results(results) ==
    IF Len(results) = 0 THEN Returned(not_found)
    ELSE IF results[1].order_refunded = "absent" THEN Raised("KeyError")
    ELSE IF results[1].order_refunded = "true" THEN Returned(not_found)
    ELSE IF results[1].order_id = "absent" THEN Raised("KeyError")
    ELSE IF results[1].order_id = "null" THEN Returned(not_found)
    ELSE Returned(ok)

\* What one attempt of requests.get can give: requests.exceptions.Timeout, or a
\* response with a status code and, for status 200, a JSON body.
TimeoutException == [exception |-> TRUE, status_code |-> 0, results |-> <<>>]
StatusResponse(c, body) == [exception |-> FALSE, status_code |-> c, results |-> body]

FinalResponses ==
    {StatusResponse(ok, body) : body \in Responses}
        \cup {StatusResponse(c, <<>>) : c \in {not_found, server_error}}

\* j attempts that raise Timeout, then n - j attempts answered with status 408.
TimedOut(j, n) ==
    [i \in 1..n |-> IF i <= j THEN TimeoutException ELSE StatusResponse(timeout, <<>>)]

\* The answers of the upstream to the successive attempts of one call: timeouts
\* up to a first answer that is none, or timeouts only.
UpstreamRuns ==
    {TimedOut(j, n) \o <<f>> : j \in 0..(TRY_COUNT - 1), n \in 0..(TRY_COUNT - 1),
                               f \in FinalResponses}
        \cup {TimedOut(j, TRY_COUNT) : j \in 0..TRY_COUNT}

\* The loop of request_sendowl after i iterations; `request` is the local of
\* that name, "unbound" until an attempt has returned a response.  Line 91
\* reads `request.codes` (not `requests.codes`): an UnboundLocalError when every
\* attempt raised, else an AttributeError (a Response has no `codes`).
RECURSIVE sendowl_loop(_, _, _)
sendowl_loop(run, i, request) ==
    IF i = TRY_COUNT
    THEN Raised(IF request = "unbound" THEN "UnboundLocalError" ELSE "AttributeError")
    ELSE IF run[i + 1].exception THEN sendowl_loop(run, i + 1, request)
    ELSE IF run[i + 1].status_code = ok THEN handle_results(run[i + 1].results)
    ELSE IF run[i + 1].status_code = timeout THEN sendowl_loop(run, i + 1, "response")
    ELSE Returned(server_error)

request_sendowl(run) == sendowl_loop(run, 0, "unbound")

\* Every way a call of request_sendowl can end.
SendowlResults == {request_sendowl(run) : run \in UpstreamRuns}

\* The upstream let every one of the TRY_COUNT attempts time out.
AllTimedOut(run) ==
    /\ Len(run) = TRY_COUNT
    /\ \A i \in 1..Len(run) : run[i].exception \/ run[i].status_code = timeout

\* Every call of request_sendowl: how it ends, and whether the upstream let all
\* its attempts time out.
SendowlCalls ==
    {[result |-> request_sendowl(run), all_timed_out |-> AllTimedOut(run)] :
        run \in UpstreamRuns}

license_is_stored(k, table) == Len(table[k]) > 0

get_stored_hid(k, table) == table[k][1].DeviceID

SelectValidRequestCount(k, table) == table[k][1].ValidRequestCount

SelectInvalidRequestCount(k, table) == table[k][1].InvalidRequestCount

UpdateValidRequestCount(k, n, table) ==
    [table EXCEPT ![k] = [i \in 1..Len(table[k]) |->
                             [table[k][i] EXCEPT !.ValidRequestCount = n]]]

UpdateInvalidRequestCount(k, n, table) ==
    [table EXCEPT ![k] = [i \in 1..Len(table[k]) |->
                             [table[k][i] EXCEPT !.InvalidRequestCount = n]]]

\* The INSERT with the valid request count started at 0.
InsertLicenseUncounted(k, h, table) ==
    [table EXCEPT ![k] = Append(table[k],
        [DeviceID |-> h, ValidRequestCount |-> 0, InvalidRequestCount |-> 0])]

InsertLicense(k, h, table) ==
    [table EXCEPT ![k] = Append(table[k],
        [DeviceID |-> h, ValidRequestCount |-> 1, InvalidRequestCount |-> 0])]

\* The table without a uniqueness constraint on License.
NoUniqueLicense == FALSE

\* The store rejects a second row for a key (create fails with a conflict).
UniqueLicense == TRUE

\* Commit as it would be if the mismatch branch rebound the license to the
\* requesting device.
CommitRebinding(w, k, h, table) ==
    CASE w.op = "insert" -> InsertLicense(k, h, table)
      [] w.op = "update_valid" -> UpdateValidRequestCount(k, w.val, table)
      [] w.op = "update_invalid" ->
            [table EXCEPT ![k] = [i \in 1..Len(table[k]) |->
                [table[k][i] EXCEPT !.InvalidRequestCount = w.val, !.DeviceID = h]]]
      [] OTHER -> table

\* connection.commit(): the transaction's write becomes visible.
Commit(w, k, h, table) ==
    CASE w.op = "insert" -> InsertLicense(k, h, table)
      [] w.op = "update_valid" -> UpdateValidRequestCount(k, w.val, table)
      [] w.op = "update_invalid" -> UpdateInvalidRequestCount(k, w.val, table)
      [] OTHER -> table

\* Another transaction holds an uncommitted write on the rows of k.
LockedByOther(r, k) ==
    \E q \in Procs \ {r} : key[q] = k /\ pending[q].op # "none"

\* ------------------------------------------------------------------- Init
\* request_sendowl has not returned nor raised.
Running == [exc |-> "running", code |-> 0]

Init ==
    /\ Licenses = [k \in Keys |-> <<>>]
    /\ pc = [r \in Procs |-> "idle"]
    /\ key = [r \in Procs |-> "k1"]
    /\ hid = [r \in Procs |-> "h1"]
    /\ session = [r \in Procs |-> "none"]
    /\ pending = [r \in Procs |-> NoWrite]
    /\ stored = [r \in Procs |-> FALSE]
    /\ stored_hid = [r \in Procs |-> "h1"]
    /\ sendowl_calls = [r \in Procs |-> 0]
    /\ exhausted = [r \in Procs |-> FALSE]
    /\ code_to_return = [r \in Procs |-> 0]
    /\ request_count = [r \in Procs |-> 0]
    /\ outcome = [r \in Procs |-> "none"]
    /\ exc = [r \in Procs |-> "none"]
    /\ started = 0
    /\ granted = {}
    /\ completed = [k \in Keys |-> 0]
    /\ loop_run = <<>>
    /\ loop_i = 0
    /\ loop_request = "unbound"
    /\ loop_ret = Running

\* ---------------------------------------------------------------- helpers
\* The handler raises: the exception leaves verify_key, nothing is committed,
\* the connection is not closed by the handler.
Raise(r, e) ==
    /\ pc' = [pc EXCEPT ![r] = "done"]
    /\ exc' = [exc EXCEPT ![r] = e]
    /\ outcome' = [outcome EXCEPT ![r] = "Error"]
    /\ completed' = [completed EXCEPT ![key[r]] = IF stored[r] THEN @ + 1 ELSE @]

\* The branch after the upstream call as it would be if an unseen key were
\* added whatever the upstream answered.
AfterSendowlAlwaysAdds(r, c) ==
    IF stored[r]
    THEN IF c = ok THEN "update_valid_select" ELSE "update_invalid_select"
    ELSE "add_license_to_db"

\* Where verify_key goes when request_sendowl returns c (lines 35, 39, 49, 53).
AfterSendowl(r, c) ==
    IF stored[r]
    THEN IF c = ok THEN "update_valid_select" ELSE "update_invalid_select"
    ELSE IF c = ok THEN "add_license_to_db" ELSE "end_db_session"

\* ---------------------------------------------------------------- actions
\* verify_key is entered and connect_to_db opens the connection (lines 27-28).
verify_key(r) ==
    /\ pc[r] = "idle"
    /\ started < MaxRequests
    /\ \E k \in Keys, h \in Hids :
          /\ key' = [key EXCEPT ![r] = k]
          /\ hid' = [hid EXCEPT ![r] = h]
    /\ started' = started + 1
    /\ session' = [session EXCEPT ![r] = "open"]
    /\ pc' = [pc EXCEPT ![r] = "license_is_stored"]
    /\ UNCHANGED <<loopvars, Licenses, pending, stored, stored_hid, sendowl_calls, exhausted,
                   code_to_return, request_count, outcome, exc, granted, completed>>

\* line 31
call_license_is_stored(r) ==
    /\ pc[r] = "license_is_stored"
    /\ stored' = [stored EXCEPT ![r] = license_is_stored(key[r], Licenses)]
    /\ pc' = [pc EXCEPT ![r] = IF license_is_stored(key[r], Licenses)
                               THEN "get_stored_hid" ELSE "request_sendowl"]
    /\ UNCHANGED <<loopvars, Licenses, key, hid, session, pending, stored_hid, sendowl_calls, exhausted,
                   code_to_return, request_count, outcome, exc, started, granted,
                   completed>>

\* lines 32-33 and 43
call_get_stored_hid(r) ==
    /\ pc[r] = "get_stored_hid"
    /\ stored_hid' = [stored_hid EXCEPT ![r] = get_stored_hid(key[r], Licenses)]
    /\ pc' = [pc EXCEPT ![r] = IF hid[r] = get_stored_hid(key[r], Licenses)
                               THEN "request_sendowl" ELSE "update_invalid_select"]
    /\ UNCHANGED <<loopvars, Licenses, key, hid, session, pending, stored, sendowl_calls, exhausted,
                   code_to_return, request_count, outcome, exc, started, granted,
                   completed>>

\* lines 34 and 48: request_sendowl runs to its end
call_request_sendowl(r) ==
    /\ pc[r] = "request_sendowl"
    /\ sendowl_calls' = [sendowl_calls EXCEPT ![r] = @ + 1]
    /\ \E call \in SendowlCalls :
          LET res == call.result IN
          /\ exhausted' = [exhausted EXCEPT ![r] = call.all_timed_out]
          /\ IF res.exc # "none"
                THEN /\ Raise(r, res.exc)
                     /\ UNCHANGED code_to_return
                ELSE /\ code_to_return' = [code_to_return EXCEPT ![r] = res.code]
                     /\ pc' = [pc EXCEPT ![r] = AfterSendowl(r, res.code)]
                     /\ UNCHANGED <<outcome, exc, completed>>
    /\ UNCHANGED <<loopvars, Licenses, key, hid, session, pending, stored, stored_hid,
                   request_count, started, granted>>

\* lines 117-118
update_valid_select(r) ==
    /\ pc[r] = "update_valid_select"
    /\ request_count' = [request_count EXCEPT ![r] =
                            SelectValidRequestCount(key[r], Licenses)]
    /\ pc' = [pc EXCEPT ![r] = "update_valid_update"]
    /\ UNCHANGED <<loopvars, Licenses, key, hid, session, pending, stored, stored_hid,
                   sendowl_calls, exhausted, code_to_return, outcome, exc, started, granted,
                   completed>>

\* lines 119-120: the UPDATE waits for the row lock
update_valid_update(r) ==
    /\ pc[r] = "update_valid_update"
    /\ ~LockedByOther(r, key[r])
    /\ pending' = [pending EXCEPT ![r] = [op |-> "update_valid",
                                          val |-> request_count[r] + 1]]
    /\ pc' = [pc EXCEPT ![r] = "end_db_session"]
    /\ UNCHANGED <<loopvars, Licenses, key, hid, session, stored, stored_hid, sendowl_calls, exhausted,
                   code_to_return, request_count, outcome, exc, started, granted,
                   completed>>

\* lines 124-125
update_invalid_select(r) ==
    /\ pc[r] = "update_invalid_select"
    /\ request_count' = [request_count EXCEPT ![r] =
                            SelectInvalidRequestCount(key[r], Licenses)]
    /\ pc' = [pc EXCEPT ![r] = "update_invalid_update"]
    /\ UNCHANGED <<loopvars, Licenses, key, hid, session, pending, stored, stored_hid,
                   sendowl_calls, exhausted, code_to_return, outcome, exc, started, granted,
                   completed>>

\* The UPDATE on a connection in autocommit mode: visible at once.
update_invalid_update_autocommit(r) ==
    /\ pc[r] = "update_invalid_update"
    /\ ~LockedByOther(r, key[r])
    /\ Licenses' = UpdateInvalidRequestCount(key[r], request_count[r] + 1, Licenses)
    /\ pc' = [pc EXCEPT ![r] = "end_db_session"]
    /\ UNCHANGED <<loopvars, pending, key, hid, session, stored, stored_hid, sendowl_calls,
                   exhausted, code_to_return, request_count, outcome, exc, started, granted,
                   completed>>

\* lines 126-127
update_invalid_update(r) ==
    /\ pc[r] = "update_invalid_update"
    /\ ~LockedByOther(r, key[r])
    /\ pending' = [pending EXCEPT ![r] = [op |-> "update_invalid",
                                          val |-> request_count[r] + 1]]
    /\ pc' = [pc EXCEPT ![r] = "end_db_session"]
    /\ UNCHANGED <<loopvars, Licenses, key, hid, session, stored, stored_hid, sendowl_calls, exhausted,
                   code_to_return, request_count, outcome, exc, started, granted,
                   completed>>

\* The INSERT written so that a conflict is passed over in silence
\* (INSERT ... ON CONFLICT DO NOTHING).
add_license_to_db_on_conflict_do_nothing(r) ==
    /\ pc[r] = "add_license_to_db"
    /\ ~(UniqueLicense /\ LockedByOther(r, key[r]))
    /\ pending' = [pending EXCEPT ![r] =
          IF UniqueLicense /\ license_is_stored(key[r], Licenses)
          THEN NoWrite ELSE [op |-> "insert", val |-> 0]]
    /\ pc' = [pc EXCEPT ![r] = "end_db_session"]
    /\ UNCHANGED <<loopvars, Licenses, key, hid, session, stored, stored_hid, sendowl_calls, exhausted,
                   code_to_return, request_count, outcome, exc, started, granted,
                   completed>>

\* line 136: the INSERT; with the key already in the table it raises
add_license_to_db(r) ==
    /\ pc[r] = "add_license_to_db"
    /\ ~(UniqueLicense /\ LockedByOther(r, key[r]))
    /\ IF UniqueLicense /\ license_is_stored(key[r], Licenses)
       THEN /\ Raise(r, "IntegrityError")
            /\ UNCHANGED pending
       ELSE /\ pending' = [pending EXCEPT ![r] = [op |-> "insert", val |-> 0]]
            /\ pc' = [pc EXCEPT ![r] = "end_db_session"]
            /\ UNCHANGED <<outcome, exc, completed>>
    /\ UNCHANGED <<loopvars, Licenses, key, hid, session, stored, stored_hid, sendowl_calls, exhausted,
                   code_to_return, request_count, started, granted>>

\* end_db_session closing the connection without the commit of line 140: the
\* transaction is rolled back.
end_db_session_without_commit(r) ==
    /\ pc[r] = "end_db_session"
    /\ pending' = [pending EXCEPT ![r] = NoWrite]
    /\ session' = [session EXCEPT ![r] = "closed"]
    /\ pc' = [pc EXCEPT ![r] = "respond"]
    /\ UNCHANGED <<loopvars, Licenses, key, hid, stored, stored_hid, sendowl_calls, exhausted,
                   code_to_return, request_count, outcome, exc, started, granted, completed>>

\* lines 139-142: commit, close
end_db_session(r) ==
    /\ pc[r] = "end_db_session"
    /\ Licenses' = Commit(pending[r], key[r], hid[r], Licenses)
    /\ pending' = [pending EXCEPT ![r] = NoWrite]
    /\ session' = [session EXCEPT ![r] = "closed"]
    /\ pc' = [pc EXCEPT ![r] = "respond"]
    /\ UNCHANGED <<loopvars, key, hid, stored, stored_hid, sendowl_calls, exhausted, code_to_return,
                   request_count, outcome, exc, started, granted, completed>>

\* The response of verify_key: return 'OK' or abort(code) (lines 38, 42, 46, 52, 55).
Response(r) ==
    IF stored[r] /\ hid[r] # stored_hid[r] THEN "Denied"
    ELSE IF code_to_return[r] = ok THEN "Granted"
    ELSE IF code_to_return[r] = not_found THEN "Denied"
    ELSE "UpstreamUnavailable"

respond(r) ==
    /\ pc[r] = "respond"
    /\ outcome' = [outcome EXCEPT ![r] = Response(r)]
    /\ granted' = IF Response(r) = "Granted"
                  THEN granted \cup {<<key[r], hid[r]>>} ELSE granted
    /\ completed' = [completed EXCEPT ![key[r]] =
                        IF stored[r] \/ Response(r) = "Granted" THEN @ + 1 ELSE @]
    /\ pc' = [pc EXCEPT ![r] = "done"]
    /\ UNCHANGED <<loopvars, Licenses, key, hid, session, pending, stored, stored_hid,
                   sendowl_calls, exhausted, code_to_return, request_count, exc, started>>

\* The handler is free for the next request; a connection left open is dropped.
finish(r) ==
    /\ pc[r] = "done"
    /\ pc' = [pc EXCEPT ![r] = "idle"]
    /\ key' = [key EXCEPT ![r] = "k1"]
    /\ hid' = [hid EXCEPT ![r] = "h1"]
    /\ session' = [session EXCEPT ![r] = "none"]
    /\ stored' = [stored EXCEPT ![r] = FALSE]
    /\ stored_hid' = [stored_hid EXCEPT ![r] = "h1"]
    /\ sendowl_calls' = [sendowl_calls EXCEPT ![r] = 0]
    /\ exhausted' = [exhausted EXCEPT ![r] = FALSE]
    /\ code_to_return' = [code_to_return EXCEPT ![r] = 0]
    /\ request_count' = [request_count EXCEPT ![r] = 0]
    /\ outcome' = [outcome EXCEPT ![r] = "none"]
    /\ exc' = [exc EXCEPT ![r] = "none"]
    /\ UNCHANGED <<loopvars, Licenses, pending, started, granted, completed>>

Next ==
    \/ \E r \in Procs : verify_key(r)
    \/ \E r \in Procs : call_license_is_stored(r)
    \/ \E r \in Procs : call_get_stored_hid(r)
    \/ \E r \in Procs : call_request_sendowl(r)
    \/ \E r \in Procs : update_valid_select(r)
    \/ \E r \in Procs : update_valid_update(r)
    \/ \E r \in Procs : update_invalid_select(r)
    \/ \E r \in Procs : update_invalid_update(r)
    \/ \E r \in Procs : add_license_to_db(r)
    \/ \E r \in Procs : end_db_session(r)
    \/ \E r \in Procs : respond(r)
    \/ \E r \in Procs : finish(r)

Spec == Init /\ [][Next]_vars

\* Requests handled one after another: a request starts when no other is
\* being handled.
Alone(r) == \A q \in Procs \ {r} : pc[q] = "idle"

SeqNext ==
    \/ \E r \in Procs : Alone(r) /\ verify_key(r)
    \/ \E r \in Procs : Alone(r) /\ call_license_is_stored(r)
    \/ \E r \in Procs : Alone(r) /\ call_get_stored_hid(r)
    \/ \E r \in Procs : Alone(r) /\ call_request_sendowl(r)
    \/ \E r \in Procs : Alone(r) /\ update_valid_select(r)
    \/ \E r \in Procs : Alone(r) /\ update_valid_update(r)
    \/ \E r \in Procs : Alone(r) /\ update_invalid_select(r)
    \/ \E r \in Procs : Alone(r) /\ update_invalid_update(r)
    \/ \E r \in Procs : Alone(r) /\ add_license_to_db(r)
    \/ \E r \in Procs : Alone(r) /\ end_db_session(r)
    \/ \E r \in Procs : Alone(r) /\ respond(r)
    \/ \E r \in Procs : Alone(r) /\ finish(r)

SeqSpec == Init /\ [][SeqNext]_vars

\* ------------------------------------------------------- store failures
\* The statements of verify_key that talk to the store: each cursor.execute
\* and connection.commit.
StoreOperations ==
    {"license_is_stored", "get_stored_hid", "update_valid_select", "update_valid_update",
     "update_invalid_select", "update_invalid_update", "add_license_to_db",
     "end_db_session"}

\* The store is unavailable at a store operation: psycopg2 raises, the
\* statement (or the commit) has no effect, verify_key has no handler, and the
\* transaction is rolled back with the connection that is never committed.
store_fails(r) ==
    /\ pc[r] \in StoreOperations
    /\ Raise(r, "OperationalError")
    /\ pending' = [pending EXCEPT ![r] = NoWrite]
    /\ UNCHANGED <<loopvars, Licenses, key, hid, session, stored, stored_hid, sendowl_calls,
                   exhausted, code_to_return, request_count, started, granted>>

FailNext ==
    \/ Next
    \/ \E r \in Procs : store_fails(r)

FailSpec == Init /\ [][FailNext]_vars

\* ------------------------------------------------- request_sendowl alone
\* One call of request_sendowl, an iteration of its loop at a time, against
\* the answers loop_run of the upstream; no request is in progress.
\* Answers the upstream would give to attempts after the deciding one.
LaterAnswers ==
    {TimeoutException, StatusResponse(server_error, <<>>),
     StatusResponse(ok, <<[order_refunded |-> "false", order_id |-> "id"]>>)}

RetryRuns ==
    UpstreamRuns
        \cup {TimedOut(j, n) \o <<f, g>> : j \in 0..(TRY_COUNT - 2), n \in 0..(TRY_COUNT - 2),
                                           f \in FinalResponses, g \in LaterAnswers}

RetryInit ==
    /\ Licenses = [k \in Keys |-> <<>>]
    /\ pc = [r \in Procs |-> "idle"]
    /\ key = [r \in Procs |-> "k1"]
    /\ hid = [r \in Procs |-> "h1"]
    /\ session = [r \in Procs |-> "none"]
    /\ pending = [r \in Procs |-> NoWrite]
    /\ stored = [r \in Procs |-> FALSE]
    /\ stored_hid = [r \in Procs |-> "h1"]
    /\ sendowl_calls = [r \in Procs |-> 0]
    /\ exhausted = [r \in Procs |-> FALSE]
    /\ code_to_return = [r \in Procs |-> 0]
    /\ request_count = [r \in Procs |-> 0]
    /\ outcome = [r \in Procs |-> "none"]
    /\ exc = [r \in Procs |-> "none"]
    /\ started = 0
    /\ granted = {}
    /\ completed = [k \in Keys |-> 0]
    /\ loop_run \in RetryRuns
    /\ loop_i = 0
    /\ loop_request = "unbound"
    /\ loop_ret = Running

\* The loop begins an iteration (line 74) and the upstream has an answer for it.
Attempting ==
    /\ loop_ret = Running
    /\ loop_i < TRY_COUNT
    /\ loop_i < Len(loop_run)

Answer == loop_run[loop_i + 1]

\* lines 79-82: requests.get raises Timeout
attempt_timeout_exception ==
    /\ Attempting
    /\ Answer.exception
    /\ loop_i' = loop_i + 1
    /\ UNCHANGED <<mainvars, loop_run, loop_request, loop_ret>>

\* lines 83-85: status 200
attempt_ok ==
    /\ Attempting
    /\ ~Answer.exception /\ Answer.status_code = ok
    /\ loop_i' = loop_i + 1
    /\ loop_request' = "response"
    /\ loop_ret' = handle_results(Answer.results)
    /\ UNCHANGED <<mainvars, loop_run>>

\* lines 86-88: status 408
attempt_timeout_status ==
    /\ Attempting
    /\ ~Answer.exception /\ Answer.status_code = timeout
    /\ loop_i' = loop_i + 1
    /\ loop_request' = "response"
    /\ UNCHANGED <<mainvars, loop_run, loop_ret>>

\* The else branch written so that the loop goes on after an error status.
attempt_other_status_retrying ==
    /\ Attempting
    /\ ~Answer.exception /\ Answer.status_code \notin {ok, timeout}
    /\ loop_i' = loop_i + 1
    /\ loop_request' = "response"
    /\ UNCHANGED <<mainvars, loop_run, loop_ret>>

\* lines 89-90: any other status
attempt_other_status ==
    /\ Attempting
    /\ ~Answer.exception /\ Answer.status_code \notin {ok, timeout}
    /\ loop_i' = loop_i + 1
    /\ loop_request' = "response"
    /\ loop_ret' = Returned(server_error)
    /\ UNCHANGED <<mainvars, loop_run>>

\* line 91, after TRY_COUNT iterations
loop_exhausted ==
    /\ loop_ret = Running
    /\ loop_i = TRY_COUNT
    /\ loop_ret' = Raised(IF loop_request = "unbound"
                          THEN "UnboundLocalError" ELSE "AttributeError")
    /\ UNCHANGED <<mainvars, loop_run, loop_i, loop_request>>

RetryNext ==
    \/ attempt_timeout_exception
    \/ attempt_ok
    \/ attempt_timeout_status
    \/ attempt_other_status
    \/ loop_exhausted

RetrySpec == RetryInit /\ [][RetryNext]_vars

\* ----------------------------------------------------------------- claims
Row(k) == Licenses[k][1]

Commits(r) == pc[r] = "end_db_session" /\ pc'[r] = "respond"
Ends(r) == pc[r] # "done" /\ pc'[r] = "done"
Mismatch(r) == stored[r] /\ hid[r] # stored_hid[r]
Match(r) == stored[r] /\ hid[r] = stored_hid[r]

\* C1: once a binding for a key is stored, its hardware identifier never
\* changes and the binding stays; when it appears it carries the hardware
\* identifier of the request that commits it.
BindingImmutable ==
    [][\A k \in Keys :
          /\ Len(Licenses'[k]) >= Len(Licenses[k])
          /\ \A i \in 1..Len(Licenses[k]) :
                Licenses'[k][i].DeviceID = Licenses[k][i].DeviceID
          /\ \A i \in (Len(Licenses[k]) + 1)..Len(Licenses'[k]) :
                \E r \in Procs : /\ Commits(r)
                                 /\ key[r] = k
                                 /\ Licenses'[k][i].DeviceID = hid[r]]_vars

\* C1 witness: a request with another hardware identifier has been denied on a
\* bound key, and a matching one granted again, and the binding still holds the
\* first identifier.
BindingImmutableWitness ==
    \E r \in Procs, k \in Keys :
        /\ pc[r] = "done" /\ key[r] = k /\ Mismatch(r) /\ outcome[r] = "Denied"
        /\ license_is_stored(k, Licenses)
        /\ Row(k).DeviceID = stored_hid[r]
        /\ Row(k).InvalidRequestCount >= 1
        /\ Row(k).ValidRequestCount >= 2

\* C2: of two requests for the same unseen key with different hardware
\* identifiers, both told Valid by the upstream, exactly one is Granted and the
\* other is Denied; a key is never Granted to two hardware identifiers.
FirstWriterWins ==
    /\ \A r, q \in Procs :
          (/\ r # q /\ pc[r] = "done" /\ pc[q] = "done"
           /\ key[r] = key[q] /\ hid[r] # hid[q]
           /\ ~stored[r] /\ ~stored[q]
           /\ code_to_return[r] = ok /\ code_to_return[q] = ok)
          => \/ outcome[r] = "Granted" /\ outcome[q] = "Denied"
             \/ outcome[r] = "Denied" /\ outcome[q] = "Granted"
    /\ \A k \in Keys : Cardinality({h \in Hids : <<k, h>> \in granted}) <= 1

\* C3: the store holds at most one row per key, and an INSERT for a key that
\* is present raises and changes nothing.
OneBindingPerKey ==
    /\ [](\A k \in Keys : Len(Licenses[k]) <= 1)
    /\ [][\A r \in Procs :
            (/\ pc[r] = "add_license_to_db" /\ pc'[r] # pc[r]
             /\ license_is_stored(key[r], Licenses))
            => /\ Licenses' = Licenses
               /\ pending'[r] = NoWrite
               /\ exc'[r] = "IntegrityError"]_vars

\* C3 witness: two requests passed the exists check for the same key, one
\* created the binding and the other's INSERT raised.
OneBindingPerKeyWitness ==
    \E r, q \in Procs :
        /\ r # q /\ key[r] = key[q]
        /\ pc[r] = "done" /\ exc[r] = "IntegrityError" /\ ~stored[r]
        /\ pc[q] = "done" /\ outcome[q] = "Granted" /\ ~stored[q]
        /\ Len(Licenses[key[r]]) = 1
        /\ Row(key[r]).DeviceID = hid[q]

\* C4: a request that finds its key bound to another hardware identifier is
\* Denied without any upstream call, and its commit increments invalidCount of
\* the key by exactly one and leaves the rest of the store as it was.
MismatchDenied ==
    [][\A r \in Procs :
          /\ (Ends(r) /\ Mismatch(r))
                => outcome'[r] = "Denied" /\ sendowl_calls'[r] = 0
          /\ (Commits(r) /\ Mismatch(r))
                => Licenses' = [Licenses EXCEPT ![key[r]] =
                      <<[Row(key[r]) EXCEPT !.InvalidRequestCount = @ + 1]>>]]_vars

\* C5: with the requests handled one after another, when none is in progress
\* validCount + invalidCount of a bound key is the number of requests made on
\* it, the creating one included.
CounterAccounting ==
    (\A r \in Procs : pc[r] = "idle")
        => \A k \in Keys :
              license_is_stored(k, Licenses)
                 => Row(k).ValidRequestCount + Row(k).InvalidRequestCount = completed[k]

\* C6: no step decreases validCount or invalidCount of a stored binding.
CountersMonotonic ==
    [][\A k \in Keys :
          (license_is_stored(k, Licenses) /\ license_is_stored(k, Licenses'))
             => /\ Licenses'[k][1].ValidRequestCount >= Row(k).ValidRequestCount
                /\ Licenses'[k][1].InvalidRequestCount >= Row(k).InvalidRequestCount]_vars

\* C7: on a bound key with the matching hardware identifier, an upstream Valid
\* gives Granted and a commit that increments validCount alone by one; an
\* upstream NotFound gives Denied and a commit that increments invalidCount
\* alone by one.
MatchingVerdict ==
    [][\A r \in Procs :
          /\ (Ends(r) /\ Match(r) /\ code_to_return[r] = ok)
                => outcome'[r] = "Granted"
          /\ (Ends(r) /\ Match(r) /\ code_to_return[r] = not_found)
                => outcome'[r] = "Denied"
          /\ (Commits(r) /\ Match(r) /\ code_to_return[r] = ok)
                => Licenses' = [Licenses EXCEPT ![key[r]] =
                      <<[Row(key[r]) EXCEPT !.ValidRequestCount = @ + 1]>>]
          /\ (Commits(r) /\ Match(r) /\ code_to_return[r] = not_found)
                => Licenses' = [Licenses EXCEPT ![key[r]] =
                      <<[Row(key[r]) EXCEPT !.InvalidRequestCount = @ + 1]>>]]_vars

\* C8: on a bound key with the matching hardware identifier, when the upstream
\* is unavailable (an error status, or every attempt timed out) the request
\* ends UpstreamUnavailable and its commit increments invalidCount alone by one.
UnavailablePenalised ==
    [][\A r \in Procs :
          /\ (/\ pc[r] # "done" /\ pc'[r] = "done" /\ stored'[r]
              /\ hid'[r] = stored_hid'[r] /\ sendowl_calls'[r] = 1
              /\ (code_to_return'[r] = server_error
                    \/ exc'[r] \in {"UnboundLocalError", "AttributeError"}))
                => outcome'[r] = "UpstreamUnavailable"
          /\ (Commits(r) /\ Match(r) /\ code_to_return[r] = server_error)
                => Licenses' = [Licenses EXCEPT ![key[r]] =
                      <<[Row(key[r]) EXCEPT !.InvalidRequestCount = @ + 1]>>]]_vars

UnboundNotValidLeavesStore ==
    [][\A r \in Procs :
          /\ (/\ pc'[r] # pc[r] /\ ~stored'[r] /\ sendowl_calls'[r] = 1
              /\ code_to_return'[r] # ok)
                => Licenses' = Licenses
          /\ (/\ pc[r] # "done" /\ pc'[r] = "done" /\ ~stored'[r]
              /\ sendowl_calls'[r] = 1 /\ code_to_return'[r] = not_found)
                => outcome'[r] = "Denied"
          /\ (/\ pc[r] # "done" /\ pc'[r] = "done" /\ ~stored'[r]
              /\ sendowl_calls'[r] = 1
              /\ (code_to_return'[r] = server_error
                    \/ exc'[r] \in {"UnboundLocalError", "AttributeError"}))
                => outcome'[r] = "UpstreamUnavailable"]_vars

\* C11: when every one of the TRY_COUNT attempts timed out, request_sendowl
\* returns the server error code and the request ends normally with
\* UpstreamUnavailable.
ExhaustionYieldsUnavailable ==
    \A r \in Procs :
        (pc[r] = "done" /\ exhausted[r])
            => /\ code_to_return[r] = server_error
               /\ exc[r] = "none"
               /\ outcome[r] = "UpstreamUnavailable"

\* C12: a binding enters the store only at the commit of a request that
\* found its key absent and was answered Valid by the upstream, and it carries
\* that request's hardware identifier; no step removes a binding.
BindingLifecycle ==
    [][\A k \in Keys :
          /\ license_is_stored(k, Licenses) => license_is_stored(k, Licenses')
          /\ (~license_is_stored(k, Licenses) /\ license_is_stored(k, Licenses'))
                => \E r \in Procs :
                      /\ Commits(r)
                      /\ key[r] = k
                      /\ ~stored[r]
                      /\ sendowl_calls[r] = 1
                      /\ code_to_return[r] = ok
                      /\ Licenses'[k] = <<[DeviceID |-> hid[r], ValidRequestCount |-> 1,
                                          InvalidRequestCount |-> 0]>>]_vars

\* C12 witness: a request on an unseen key that the upstream did not answer
\* Valid has ended and its key is still absent, while a binding created earlier
\* is still stored after a later request on its key.
BindingLifecycleWitness ==
    \E r \in Procs, k \in Keys :
        /\ pc[r] = "done" /\ exc[r] = "none"
        /\ ~stored[r] /\ code_to_return[r] # ok
        /\ ~license_is_stored(key[r], Licenses)
        /\ license_is_stored(k, Licenses)
        /\ completed[k] >= 2

StoreErrors == {"OperationalError", "IntegrityError"}

\* C13: a request in which a store operation fails (store unavailable, or
\* conflict on create) ends there with an error and not Granted, is not
\* resumed, has committed nothing and commits nothing afterwards: the committed
\* store changes only at the commit of a request without failure.
StoreFailureLeavesNoEffect ==
    [][/\ \A r \in Procs :
             /\ (exc[r] = "none" /\ exc'[r] \in StoreErrors)
                   => /\ Licenses' = Licenses
                      /\ pending'[r] = NoWrite
                      /\ session[r] = "open" /\ session'[r] = "open"
                      /\ pc'[r] = "done"
                      /\ outcome'[r] = "Error"
                      /\ <<key[r], hid[r]>> \in granted' => <<key[r], hid[r]>> \in granted
             /\ exc[r] \in StoreErrors
                   => /\ pc'[r] \in {"done", "idle"}
                      /\ outcome'[r] \in {"Error", "none"}
                      /\ sendowl_calls'[r] <= sendowl_calls[r]
                      /\ pending'[r] = NoWrite
       /\ Licenses' # Licenses
             => \E q \in Procs : /\ Commits(q)
                                 /\ exc[q] = "none"
                                 /\ Licenses' = Commit(pending[q], key[q], hid[q], Licenses)]_vars

\* C13 witness: a request on a bound key has failed at its UPDATE or at its
\* commit, after reading the counter, and the counters of its key are as they
\* were read; another request has failed on a conflict on create.
StoreFailureLeavesNoEffectWitness ==
    \E r \in Procs :
        /\ pc[r] = "done" /\ exc[r] = "OperationalError"
        /\ stored[r] /\ hid[r] = stored_hid[r] /\ code_to_return[r] = ok
        /\ request_count[r] >= 1
        /\ Row(key[r]).ValidRequestCount = request_count[r]
        /\ \E q \in Procs \ {r} : pc[q] = "done" /\ exc[q] = "IntegrityError"

\* C14: no increment is lost under concurrency: every committed increment of
\* a counter leaves the committed value of that counter one above what it was,
\* so that the final value is the initial one plus the number of increments.
IncrementsNotLost ==
    [][\A r \in Procs :
          /\ (Commits(r) /\ pending[r].op = "update_valid")
                => Licenses'[key[r]][1].ValidRequestCount
                      = Row(key[r]).ValidRequestCount + 1
          /\ (Commits(r) /\ pending[r].op = "update_invalid")
                => Licenses'[key[r]][1].InvalidRequestCount
                      = Row(key[r]).InvalidRequestCount + 1]_vars

\* The answer to attempt i of the call was a timeout: the Timeout exception
\* or the timeout status.
AttemptTimedOut(i) == loop_run[i].exception \/ loop_run[i].status_code = timeout

\* C15: one call of request_sendowl issues at most TRY_COUNT attempts, issues
\* a further attempt only after an attempt that timed out, and whenever it
\* ends it ends with a returned result, whatever the upstream answers.
BoundedRetryWithResult ==
    [][/\ loop_i' <= TRY_COUNT
       /\ (loop_i' # loop_i) => (loop_i' = loop_i + 1 /\ loop_ret = Running)
       /\ (loop_i' # loop_i /\ loop_i > 0) => AttemptTimedOut(loop_i)
       /\ (loop_ret' # Running) => loop_ret'.exc = "none"]_vars

\* C16: when an attempt is answered with a status that is neither success
\* nor timeout, request_sendowl returns the server error code at that attempt,
\* and once it has returned it issues no further attempt, however many
\* attempts of the budget remain.
NonTimeoutFailureNotRetried ==
    [][/\ (/\ Attempting
           /\ ~Answer.exception
           /\ Answer.status_code \notin {ok, timeout}
           /\ loopvars' # loopvars)
             => /\ loop_i' = loop_i + 1
                /\ loop_ret' = Returned(server_error)
       /\ (loop_ret # Running) => (loop_i' = loop_i /\ loop_ret' = loop_ret)]_vars

\* C16 witness: the call has returned the server error code at an attempt
\* answered with an error status, after at least one timeout, with budget left
\* and with an answer of the upstream that was never asked for.
NonTimeoutFailureNotRetriedWitness ==
    /\ loop_ret = Returned(server_error)
    /\ loop_i >= 2 /\ loop_i < TRY_COUNT - 1
    /\ Len(loop_run) > loop_i
    /\ ~loop_run[loop_i].exception
    /\ loop_run[loop_i].status_code \notin {ok, timeout}
    /\ AttemptTimedOut(loop_i - 1)

\* C17: every request that has ended, on whatever path, opened its own
\* connection and has committed (or rolled back) and closed it, with no write
\* left uncommitted.
SessionReleasedOnEveryPath ==
    \A r \in Procs :
        /\ pc[r] \notin {"idle"} => session[r] # "none"
        /\ pc[r] = "done" => (session[r] = "closed" /\ pending[r] = NoWrite)

\* C18: for a successful upstream response the result is NotFound when the
\* record list is empty, when the first record is flagged refunded, or when
\* the order reference or the refund flag of the first record is absent, and
\* Valid otherwise; records after the first and the value of an order reference
\* that is present play no part.
UpstreamInterpretation ==
    [][(/\ Attempting
        /\ ~Answer.exception
        /\ Answer.status_code = ok
        /\ loopvars' # loopvars)
          => loop_ret' = Returned(
                IF Len(Answer.results) = 0 THEN not_found
                ELSE IF Answer.results[1].order_refunded \in {"true", "absent"} THEN not_found
                ELSE IF Answer.results[1].order_id = "absent" THEN not_found
                ELSE ok)]_vars

\* C19: when a request is about to answer Granted, and once it has, the
\* committed store holds a binding of its key with its hardware identifier,
\* and its own write (create or validCount increment) is already committed:
\* the connection is closed and no write of the request is pending.
GrantedImpliesCommittedBinding ==
    \A r \in Procs :
        (\/ pc[r] = "respond" /\ Response(r) = "Granted"
         \/ pc[r] = "done" /\ outcome[r] = "Granted")
            => /\ \E i \in 1..Len(Licenses[key[r]]) :
                     /\ Licenses[key[r]][i].DeviceID = hid[r]
                     /\ Licenses[key[r]][i].ValidRequestCount >= 1
               /\ pending[r] = NoWrite
               /\ session[r] = "closed"

\* C19 witness: one request has been Granted on creating the binding and
\* another on a validCount increment of the same key.
GrantedImpliesCommittedBindingWitness ==
    \E r \in Procs, q \in Procs :
        /\ pc[r] = "done" /\ outcome[r] = "Granted" /\ ~stored[r]
        /\ pc[q] = "done" /\ outcome[q] = "Granted" /\ stored[q]
        /\ key[q] = key[r]
        /\ Row(key[r]).ValidRequestCount = 2

\* C20: in every reachable state every stored binding has validCount >= 1
\* and invalidCount >= 0.
CounterRange ==
    \A k \in Keys :
        \A i \in 1..Len(Licenses[k]) :
            /\ Licenses[k][i].ValidRequestCount >= 1
            /\ Licenses[k][i].InvalidRequestCount >= 0

\* C20 witness: a binding whose two counters have both been written by
\* requests after the one that created it.
CounterRangeWitness ==
    \E k \in Keys :
        /\ license_is_stored(k, Licenses)
        /\ Row(k).ValidRequestCount >= 2
        /\ Row(k).InvalidRequestCount >= 1
        /\ \A r \in Procs : pc[r] = "idle"

====
